---- MODULE Spec2Model ----
(***************************************************************************)
(* A model of foyer's SMARTS-based atom typing (foyer/smarts_parser.py:    *)
(* Rule, find_atomtypes) and of the bonded-term generator                  *)
(* (foyer/forcefield.py: create_forces and its helpers).                   *)
(***************************************************************************)
EXTENDS FiniteSets, Integers, Sequences, TLC

(***************************************************************************)
(* Bounds of the model.                                                    *)
(***************************************************************************)
\* longest linear molecule offered to find_atomtypes
MaxChain == 4
\* longest list of rules offered to find_atomtypes
MaxRules == 2
\* number of nodes create_forces may see
MaxNodes == 4
\* number of bonds of a structure handed to create_forces
MaxBonds == 3

(***************************************************************************)
(* Generic helpers.                                                        *)
(***************************************************************************)
Range(s) == {s[k] : k \in 1..Len(s)}

Reverse(s) == [k \in 1..Len(s) |-> s[Len(s) + 1 - k]]

Front(s) == SubSeq(s, 1, Len(s) - 1)

Last(s) == s[Len(s)]

\* s without its k-th element
DropAt(s, k) == SubSeq(s, 1, k - 1) \o SubSeq(s, k + 1, Len(s))

RECURSIVE Concat(_)
Concat(ss) == IF ss = <<>> THEN <<>> ELSE Head(ss) \o Concat(Tail(ss))

\* the sequences in which the elements of a finite set can be listed
RECURSIVE SeqsOf(_)
SeqsOf(S) ==
    IF S = {} THEN {<<>>}
    ELSE UNION {{<<x>> \o t : t \in SeqsOf(S \ {x})} : x \in S}

(***************************************************************************)
(* The parse tree plyplus builds from smarts_grammar.  A node is a record  *)
(* [head, tail]; punctuation tokens are filtered out, rules marked @ are   *)
(* inlined into their parent and rules marked ? are replaced by their only *)
(* child.  A NUM token is the sequence of its digits, a LABEL token the    *)
(* pair of its leading percent sign and the rest of its text.              *)
(***************************************************************************)
Node(h, t) == [head |-> h, tail |-> t]

\* start: string
StartNode(kids) == Node("start", kids)
\* branch: string
BranchNode(kids) == Node("branch", kids)
\* atom: LBRACKET or_expression RBRACKET atom_label?
AtomNode(e) == Node("atom", <<e>>)
AtomNodeLabelled(e, num) == Node("atom", <<e, Node("atom_label", <<num>>)>>)
\* ?or_expression, ?and_expression
OrExpr(a, b) == Node("or_expression", <<a, b>>)
AndExpr(a, b) == Node("and_expression", <<a, b>>)
\* atom_id and its alternatives
AtomId(p) == Node("atom_id", <<p>>)
AtomicNumId(num) == AtomId(Node("atomic_num", <<num>>))
AtomSymbolId(sym) == AtomId(Node("atom_symbol", <<sym>>))
AnyAtomId == AtomId(Node("any_atom", <<"*">>))
HasLabelId(name) == AtomId(Node("has_label", << <<"%", name>> >>))
NeighborCountId(num) == AtomId(Node("neighbor_count", <<num>>))
RingSizeId(num) == AtomId(Node("ring_size", <<num>>))
MatchesStringId(kids) == AtomId(Node("matches_string", kids))

\* int() of a NUM token
DigitValue == [d \in {"0", "1", "2", "3", "4", "5", "6", "7", "8", "9"} |->
    CASE d = "0" -> 0 [] d = "1" -> 1 [] d = "2" -> 2 [] d = "3" -> 3
      [] d = "4" -> 4 [] d = "5" -> 5 [] d = "6" -> 6 [] d = "7" -> 7
      [] d = "8" -> 8 [] d = "9" -> 9]

RECURSIVE ParseInt(_)
ParseInt(num) ==
    IF num = <<>> THEN 0
    ELSE 10 * ParseInt(Front(num)) + DigitValue[Last(num)]

\* parmed.periodic_table.AtomicNum, restricted to the symbols the model uses
AtomicNum == [s \in {"H", "C", "N", "O"} |->
    CASE s = "H" -> 1 [] s = "C" -> 6 [] s = "N" -> 7 [] s = "O" -> 8]

\* a slip: the percent sign is not cut off
CutPercentKept(tok) == tok[1]

\* the text of a LABEL token after its percent sign
CutPercent(tok) == tok[2]

\* the node a path of child positions leads to
RECURSIVE NodeAt(_, _)
NodeAt(node, path) ==
    IF path = <<>> THEN node ELSE NodeAt(node.tail[Head(path)], Tail(path))

(***************************************************************************)
(* smarts_grammar.parse.  A SMARTS string is given as the list of tokens   *)
(* the grammar's token rules cut it into; a token is a record [type, text] *)
(* whose text is the sequence of the pieces the model tells apart (the     *)
(* digits of a NUM, the percent sign and the name of a LABEL).             *)
(***************************************************************************)
Tok(type, text) == [type |-> type, text |-> text]

HASH == Tok("HASH", <<"#">>)
LBRACKET == Tok("LBRACKET", <<"[">>)
RBRACKET == Tok("RBRACKET", <<"]">>)
LPAR == Tok("LPAR", <<"(">>)
RPAR == Tok("RPAR", <<")">>)
COMMA == Tok("COMMA", <<",">>)
SEMI == Tok("SEMI", <<";">>)
AMP == Tok("AMP", <<"&">>)
STAR == Tok("STAR", <<"*">>)
DOLLAR == Tok("DOLLAR", <<"$">>)
\* the anonymous tokens 'D' and 'R' of the atom_id rule
LetterD == Tok("D", <<"D">>)
LetterR == Tok("R", <<"R">>)
NUM(digits) == Tok("NUM", digits)
LABEL(name) == Tok("LABEL", <<"%", name>>)
SYMBOL(sym) == Tok("SYMBOL", <<sym>>)

\* the type of the i-th token, "EOF" past the end of the string
TypeAt(toks, i) == IF i <= Len(toks) THEN toks[i].type ELSE "EOF"

\* the outcome of one grammar rule tried at position i: whether it applies,
\* what it builds, and the position after it
Parsed(val, next) == [ok |-> TRUE, val |-> val, next |-> next]
NoParse(at) == [ok |-> FALSE, val |-> <<>>, next |-> at]

\* the result r of a rule, with x put in front of what it built
Prepend(x, r) == IF r.ok THEN Parsed(<<x>> \o r.val, r.next) ELSE r

RECURSIVE parse_string(_, _)
RECURSIVE string_branches(_, _)
RECURSIVE string_lastbranch(_, _, _)
RECURSIVE parse_chain(_, _)
RECURSIVE chain_more(_, _)
RECURSIVE parse_nonlastbranches(_, _)
RECURSIVE branch_close(_, _)
RECURSIVE parse_atom(_, _)
RECURSIVE parse_or_expression(_, _)
RECURSIVE or_more(_, _)
RECURSIVE parse_and_expression(_, _)
RECURSIVE and_more(_, _)
RECURSIVE parse_atom_id(_, _)

\* DOLLAR LPAR matches_string RPAR, once its string s is read
matches_string_close(toks, s) ==
    IF ~s.ok THEN s
    ELSE IF TypeAt(toks, s.next) # "RPAR" THEN NoParse(s.next)
    ELSE Parsed(MatchesStringId(s.val), s.next + 1)

\* atom_id: atom_symbol | HASH atomic_num | any_atom
\*        | DOLLAR LPAR matches_string RPAR | has_label
\*        | 'D' neighbor_count | 'R' ring_size
parse_atom_id(toks, i) ==
    LET t == TypeAt(toks, i)
        u == TypeAt(toks, i + 1)
    IN  CASE t = "SYMBOL" -> Parsed(AtomSymbolId(toks[i].text[1]), i + 1)
          [] t = "STAR" -> Parsed(AnyAtomId, i + 1)
          [] t = "LABEL" -> Parsed(HasLabelId(toks[i].text[2]), i + 1)
          [] t = "HASH" ->
                IF u = "NUM" THEN Parsed(AtomicNumId(toks[i + 1].text), i + 2)
                ELSE NoParse(i + 1)
          [] t = "D" ->
                IF u = "NUM"
                THEN Parsed(NeighborCountId(toks[i + 1].text), i + 2)
                ELSE NoParse(i + 1)
          [] t = "R" ->
                IF u = "NUM" THEN Parsed(RingSizeId(toks[i + 1].text), i + 2)
                ELSE NoParse(i + 1)
          [] t = "DOLLAR" ->
                IF u = "LPAR"
                THEN matches_string_close(toks, parse_string(toks, i + 2))
                ELSE NoParse(i + 1)
          [] OTHER -> NoParse(i)

\* the and_expression of the operands l and r
and_join(l, r) == IF r.ok THEN Parsed(AndExpr(l.val, r.val), r.next) ELSE r

\* ?and_expression: (and_expression and_symbol)? atom_id; l is what is
\* read so far
and_more(toks, l) ==
    IF ~l.ok THEN l
    ELSE IF TypeAt(toks, l.next) \notin {"SEMI", "AMP"} THEN l
    ELSE and_more(toks, and_join(l, parse_atom_id(toks, l.next + 1)))

parse_and_expression(toks, i) == and_more(toks, parse_atom_id(toks, i))

\* the or_expression of the operands l and r
or_join(l, r) == IF r.ok THEN Parsed(OrExpr(l.val, r.val), r.next) ELSE r

\* ?or_expression: (or_expression or_symbol)? and_expression; l is what is
\* read so far
or_more(toks, l) ==
    IF ~l.ok THEN l
    ELSE IF TypeAt(toks, l.next) # "COMMA" THEN l
    ELSE or_more(toks, or_join(l, parse_and_expression(toks, l.next + 1)))

parse_or_expression(toks, i) == or_more(toks, parse_and_expression(toks, i))

\* RBRACKET atom_label?, once the or_expression e of the atom is read
atom_close(toks, e) ==
    IF ~e.ok THEN e
    ELSE IF TypeAt(toks, e.next) # "RBRACKET" THEN NoParse(e.next)
    ELSE IF TypeAt(toks, e.next + 1) = "NUM"
    THEN Parsed(AtomNodeLabelled(e.val, toks[e.next + 1].text), e.next + 2)
    ELSE Parsed(AtomNode(e.val), e.next + 1)

\* atom: LBRACKET or_expression RBRACKET atom_label?
parse_atom(toks, i) ==
    IF TypeAt(toks, i) = "LBRACKET"
    THEN atom_close(toks, parse_or_expression(toks, i + 1))
    ELSE NoParse(i)

\* @chain: atom chain | atom; a is the atom just read, and the chain goes
\* on as long as another atom begins
chain_more(toks, a) ==
    IF ~a.ok THEN a
    ELSE IF TypeAt(toks, a.next) # "LBRACKET" THEN Parsed(<<a.val>>, a.next)
    ELSE Prepend(a.val, parse_chain(toks, a.next))

parse_chain(toks, i) == chain_more(toks, parse_atom(toks, i))

\* RPAR and the branches that follow, once the string b of a branch is read
branch_close(toks, b) ==
    IF ~b.ok THEN b
    ELSE IF TypeAt(toks, b.next) # "RPAR" THEN NoParse(b.next)
    ELSE Prepend(BranchNode(b.val), parse_nonlastbranches(toks, b.next + 1))

\* @nonlastbranch: LPAR branch RPAR, as often as one begins
parse_nonlastbranches(toks, i) ==
    IF TypeAt(toks, i) = "LPAR"
    THEN branch_close(toks, parse_string(toks, i + 1))
    ELSE Parsed(<<>>, i)

\* the children kids of a string, with those of its last branch lb
string_end(kids, lb) ==
    IF lb.ok THEN Parsed(kids \o <<BranchNode(lb.val)>>, lb.next) ELSE lb

\* @lastbranch: branch, when another atom begins after the branches bs
string_lastbranch(toks, kids, bs) ==
    IF ~bs.ok THEN bs
    ELSE IF TypeAt(toks, bs.next) # "LBRACKET"
    THEN Parsed(kids \o bs.val, bs.next)
    ELSE string_end(kids \o bs.val, parse_string(toks, bs.next))

\* nonlastbranch* lastbranch?, once the chain c of the string is read
string_branches(toks, c) ==
    IF ~c.ok THEN c
    ELSE string_lastbranch(toks, c.val, parse_nonlastbranches(toks, c.next))

\* @string: chain nonlastbranch* lastbranch?; the children it hands to the
\* rule it is inlined into
parse_string(toks, i) == string_branches(toks, parse_chain(toks, i))

\* what smarts_grammar.parse raises on a string outside the grammar
ParseError == Node("ParseError", <<>>)

\* start: string, once the string s is read: the whole input is used up
start(toks, s) ==
    IF s.ok /\ s.next = Len(toks) + 1 THEN StartNode(s.val) ELSE ParseError

\* smarts_grammar.parse: the tree of the string, or the error
parse(toks) == start(toks, parse_string(toks, 1))

(***************************************************************************)
(* Rule: a rule object is identified by its name; what an overrides set or *)
(* a blacklist holds is either a rule object or a plain string.            *)
(***************************************************************************)
RuleObj(name) == <<"Rule", name>>
StrObj(text) == <<"str", text>>

\* Rule.__init__: the attributes of the new object; its ast is ParseError
\* when the parse raises and no object comes to exist
Rule(name, smarts_string, overrides) ==
    [name |-> name, smarts_string |-> smarts_string,
     ast |-> parse(smarts_string), overrides |-> overrides]

\* Rule.start_atom_expr: the first atom of the pattern, as a path
start_atom_expr == <<1>>

\* the walk over the siblings that follow an atom when the next one is a
\* branch (the while loop of _neighbor_atom_exprs)
RECURSIVE BranchWalk(_, _, _)
BranchWalk(parent, ppath, k) ==
    LET cur == parent.tail[k]
        is_last_kid == k = Len(parent.tail)
    IN  IF cur.head = "branch"
        THEN <<ppath \o <<k, 1>>>> \o
             (IF is_last_kid THEN <<>> ELSE BranchWalk(parent, ppath, k + 1))
        ELSE IF cur.head = "atom"
        THEN <<ppath \o <<k>>>>
        ELSE IF is_last_kid THEN <<>> ELSE BranchWalk(parent, ppath, k + 1)

\* Rule._neighbor_atom_exprs: the atoms whose expressions are the neighbor
\* expressions of the atom at path pos
neighbor_atom_exprs(ast, pos) ==
    LET ppath == Front(pos)
        parent == NodeAt(ast, ppath)
        k == Last(pos)
    IN  IF k = Len(parent.tail) THEN <<>>
        ELSE IF parent.tail[k + 1].head = "atom" THEN <<ppath \o <<k + 1>>>>
        ELSE BranchWalk(parent, ppath, k + 1)

(***************************************************************************)
(* A molecule: atoms are 1..n, each with an atomic number and the ordered  *)
(* list of its bond partners.                                              *)
(***************************************************************************)
Molecule(an, bp) == [atomic_number |-> an, bond_partners |-> bp]

AtomsOf(m) == 1..Len(m.atomic_number)

\* outcomes of a match: "T" and "F" for True and False, or the exception
\* that is raised
Exceptions == {"NotImplementedError", "AssertionError", "TypeError",
               "KeyError"}

IsError(r) == r \in Exceptions

\* the ring_size branch of Rule._atom_id_matches
ring_size_matches == "NotImplementedError"

\* Rule._atom_id_matches
atom_id_matches(m, wl, atom_id, atom) ==
    CASE atom_id.head = "any_atom" -> "T"
      [] atom_id.head = "atomic_num" ->
            IF m.atomic_number[atom] = ParseInt(atom_id.tail[1])
            THEN "T" ELSE "F"
      [] atom_id.head = "atom_symbol" ->
            IF atom_id.tail[1] \notin DOMAIN AtomicNum THEN "KeyError"
            ELSE IF m.atomic_number[atom] = AtomicNum[atom_id.tail[1]]
            THEN "T" ELSE "F"
      [] atom_id.head = "has_label" ->
            IF CutPercent(atom_id.tail[1]) \in {r[2] : r \in wl[atom]}
            THEN "T" ELSE "F"
      [] atom_id.head = "neighbor_count" ->
            IF Len(m.bond_partners[atom]) = ParseInt(atom_id.tail[1])
            THEN "T" ELSE "F"
      [] atom_id.head = "ring_size" -> ring_size_matches
      [] atom_id.head = "matches_string" -> "NotImplementedError"
      [] OTHER -> "F"

\* Rule._atom_expr_matches; and / or evaluate their right operand only when
\* the left one does not decide
RECURSIVE atom_expr_matches(_, _, _, _)
atom_expr_matches(m, wl, atom_expr, atom) ==
    IF atom_expr.head = "and_expression"
    THEN LET l == atom_expr_matches(m, wl, atom_expr.tail[1], atom)
         IN  IF l = "T" THEN atom_expr_matches(m, wl, atom_expr.tail[2], atom)
             ELSE l
    ELSE IF atom_expr.head = "or_expression"
    THEN LET l == atom_expr_matches(m, wl, atom_expr.tail[1], atom)
         IN  IF l = "F" THEN atom_expr_matches(m, wl, atom_expr.tail[2], atom)
             ELSE l
    ELSE IF atom_expr.head = "atom_id"
    THEN atom_id_matches(m, wl, atom_expr.tail[1], atom)
    ELSE "TypeError"

\* itertools.permutations(s, r): the r-length arrangements of the elements
\* of s, in the order of their positions in s
RECURSIVE permutations(_, _)
permutations(s, r) ==
    IF r = 0 THEN <<<<>>>>
    ELSE Concat([k \in 1..Len(s) |->
            LET rest == permutations(DropAt(s, k), r - 1)
            IN  [q \in 1..Len(rest) |-> <<s[k]>> \o rest[q]]])

\* the assertion of Rule._matches on the number of physical neighbors
NeighborAssert(neighbor_atoms, exprs) == Len(neighbor_atoms) >= Len(exprs)

RECURSIVE matches_(_, _, _, _, _)
RECURSIVE MatchSet(_, _, _, _, _, _)
RECURSIVE MatchSets(_, _, _, _, _, _)

\* the inner loop of Rule._matches over the pairs of one match set: "F" is
\* the break, "T" the else branch of the loop
MatchSet(m, wl, ast, x, exprs, k) ==
    IF k > Len(exprs) THEN "T"
    ELSE LET r == matches_(m, wl, ast, x[k], exprs[k])
         IN  IF r = "T" THEN MatchSet(m, wl, ast, x, exprs, k + 1) ELSE r

\* the outer loop of Rule._matches over the possible match sets
MatchSets(m, wl, ast, sets, exprs, k) ==
    IF k > Len(sets) THEN "F"
    ELSE LET r == MatchSet(m, wl, ast, sets[k], exprs, 1)
         IN  IF r = "F" THEN MatchSets(m, wl, ast, sets, exprs, k + 1) ELSE r

\* Rule._matches; pos is the path of the atom whose expression is atom_expr
matches_(m, wl, ast, atom, pos) ==
    LET here == atom_expr_matches(m, wl, NodeAt(ast, pos).tail[1], atom)
        exprs == neighbor_atom_exprs(ast, pos)
        neighbor_atoms == m.bond_partners[atom]
    IN  IF here = "T"
        THEN IF exprs = <<>> THEN "T"
             ELSE IF ~NeighborAssert(neighbor_atoms, exprs)
             THEN "AssertionError"
             ELSE MatchSets(m, wl, ast,
                            permutations(neighbor_atoms, Len(exprs)),
                            exprs, 1)
        ELSE IF here = "F" THEN "F"
        ELSE here

\* Rule.matches
matches(m, wl, rule, atom) == matches_(m, wl, rule.ast, atom, start_atom_expr)

(***************************************************************************)
(* The inputs of the typing runs: molecules and rules.                     *)
(***************************************************************************)
\* a linear molecule of n atoms whose elements repeat elems; each atom lists
\* its lower neighbor first when up, last otherwise
ChainMol(n, elems, up) ==
    Molecule([k \in 1..n |-> elems[((k - 1) % Len(elems)) + 1]],
             [k \in 1..n |->
                LET lo == IF k > 1 THEN <<k - 1>> ELSE <<>>
                    hi == IF k < n THEN <<k + 1>> ELSE <<>>
                IN  IF up THEN lo \o hi ELSE hi \o lo])

\* a carbon with three hydrogens: a carbon of degree 3
Methyl == Molecule(<<6, 1, 1, 1>>, <<<<2, 3, 4>>, <<1>>, <<1>>, <<1>>>>)

Methane == Molecule(<<6, 1, 1, 1, 1>>,
                    <<<<2, 3, 4, 5>>, <<1>>, <<1>>, <<1>>, <<1>>>>)

\* C1(H,H,H,C2); C2(H,H,H,C1)
Ethane == Molecule(<<6, 1, 1, 1, 6, 1, 1, 1>>,
                   <<<<2, 3, 4, 5>>, <<1>>, <<1>>, <<1>>,
                     <<6, 7, 8, 1>>, <<5>>, <<5>>, <<5>>>>)

Molecules ==
    {ChainMol(n, e, u) : n \in 1..MaxChain, e \in {<<6>>, <<6, 1>>},
                         u \in BOOLEAN}
    \cup {Methyl, Methane, Ethane}

\* the arguments of one call Rule(name, smarts_string, overrides)
RuleCall(name, smarts_string, overrides) ==
    [name |-> name, smarts_string |-> smarts_string, overrides |-> overrides]

\* [#6;D4 up to the closing bracket
CarbonD4 == <<LBRACKET, HASH, NUM(<<"6">>), SEMI, LetterD, NUM(<<"4">>)>>
\* [*]
Wild == <<LBRACKET, STAR, RBRACKET>>
\* [#6] and [#1]
Carbon == <<LBRACKET, HASH, NUM(<<"6">>), RBRACKET>>
Hydrogen == <<LBRACKET, HASH, NUM(<<"1">>), RBRACKET>>

\* the calls a run draws its rule list from
RuleDefs == <<
    \* [#6;D4]
    RuleCall("opls_135", CarbonD4 \o <<RBRACKET>>, {}),
    \* [#6;D4;%opls_135]
    RuleCall("opls_136", CarbonD4 \o <<SEMI, LABEL("opls_135"), RBRACKET>>,
             {RuleObj("opls_135")}),
    \* [#6;D4;%opls_135], overriding by name
    RuleCall("opls_137", CarbonD4 \o <<SEMI, LABEL("opls_135"), RBRACKET>>,
             {StrObj("opls_135")}),
    \* [*]
    RuleCall("any", Wild, {}),
    \* [*;%any]
    RuleCall("any_l", <<LBRACKET, STAR, SEMI, LABEL("any"), RBRACKET>>,
             {RuleObj("any")}),
    \* [#6;D4]([*])([*])([*])[*]
    RuleCall("tetra",
             CarbonD4 \o <<RBRACKET>> \o <<LPAR>> \o Wild \o <<RPAR>>
                 \o <<LPAR>> \o Wild \o <<RPAR>>
                 \o <<LPAR>> \o Wild \o <<RPAR>> \o Wild, {}),
    \* [#6;D4](*)(*)(*)*: the wildcards without their brackets
    RuleCall("tetra_bare",
             CarbonD4 \o <<RBRACKET, LPAR, STAR, RPAR, LPAR, STAR, RPAR,
                           LPAR, STAR, RPAR, STAR>>, {}),
    \* [#6][#1][#6]
    RuleCall("chain3", Carbon \o Hydrogen \o Carbon, {}),
    \* [R5]
    RuleCall("ring5", <<LBRACKET, LetterR, NUM(<<"5">>), RBRACKET>>, {}),
    \* [#1;R5]
    RuleCall("h_ring",
             <<LBRACKET, HASH, NUM(<<"1">>), SEMI, LetterR, NUM(<<"5">>),
               RBRACKET>>, {}),
    \* [#6,R5]
    RuleCall("c_or_ring",
             <<LBRACKET, HASH, NUM(<<"6">>), COMMA, LetterR, NUM(<<"5">>),
               RBRACKET>>, {}),
    \* [$([#6])]
    RuleCall("sub",
             <<LBRACKET, DOLLAR, LPAR>> \o Carbon \o <<RPAR, RBRACKET>>, {}),
    \* [*][*]([*])[*]1
    RuleCall("fork",
             Wild \o Wild \o <<LPAR>> \o Wild \o <<RPAR>> \o Wild
                 \o <<NUM(<<"1">>)>>, {}),
    \* [H][%opls_135]
    RuleCall("h_on_135",
             <<LBRACKET, SYMBOL("H"), RBRACKET,
               LBRACKET, LABEL("opls_135"), RBRACKET>>, {}),
    \* [#6,#8]
    RuleCall("c_block",
             <<LBRACKET, HASH, NUM(<<"6">>), COMMA, HASH, NUM(<<"8">>),
               RBRACKET>>, {RuleObj("opls_135")})
>>

\* the lists of at most MaxRules distinct calls
RuleLists ==
    UNION {SeqsOf(S) : S \in {T \in SUBSET Range(RuleDefs) :
                                 Cardinality(T) \in 1..MaxRules}}

(***************************************************************************)
(* State.                                                                  *)
(***************************************************************************)
VARIABLES
    mode,            \* which operation this behaviour runs
    mol,             \* find_atomtypes: the molecule the atoms belong to
    atoms,           \* find_atomtypes: the atoms argument, in visiting order
    rule_defs,       \* the calls of Rule that are to build the rules
    rules,           \* find_atomtypes: the rules argument, in visiting order
    pc,              \* "new" and "rejected" while and after the rules are
                     \* built; find_atomtypes: "while", "scan", "done" or
                     \* "raised"
    ai, ri,          \* find_atomtypes: positions of the two for loops
    found_something, \* find_atomtypes: its local of that name
    passes,          \* find_atomtypes: passes of the while loop begun
    whitelist,       \* atom.whitelist of every atom
    blacklist,       \* atom.blacklist of every atom
    last,            \* find_atomtypes: the latest (atom, rule) pair visited
    ff               \* create_forces: the structure and the loop over nodes

vars == <<mode, mol, atoms, rule_defs, rules, pc, ai, ri, found_something,
          passes, whitelist, blacklist, last, ff>>

typing_vars == <<mol, atoms, rule_defs, rules, pc, ai, ri, found_something,
                 passes, whitelist, blacklist, last>>

(***************************************************************************)
(* find_atomtypes.                                                         *)
(***************************************************************************)
NoPair == [atom |-> 0, rule |-> "", result |-> "none"]

\* the atoms and the calls of Rule of a run; no rule is built yet, and the
\* lists of the atoms and found_something are as find_atomtypes sets them
\* when it begins
InitTyping ==
    /\ mode = "typing"
    /\ mol \in Molecules
    /\ atoms \in {[k \in AtomsOf(mol) |-> k],
                  Reverse([k \in AtomsOf(mol) |-> k])}
    /\ rule_defs \in RuleLists
    /\ rules = <<>>
    /\ pc = "new"
    /\ ai = 1
    /\ ri = 1
    /\ found_something = TRUE
    /\ passes = 0
    /\ whitelist = [a \in AtomsOf(mol) |-> {}]
    /\ blacklist = [a \in AtomsOf(mol) |-> {}]
    /\ last = NoPair
    /\ ff = [pc |-> "idle"]

\* the call builds a rule: the grammar accepts its SMARTS string
Builds(call) ==
    Rule(call.name, call.smarts_string, call.overrides).ast # ParseError

\* every Rule(...) of the run returns its object, and find_atomtypes is
\* called with the list of them
NewRules ==
    /\ mode = "typing"
    /\ pc = "new"
    /\ \A k \in 1..Len(rule_defs) : Builds(rule_defs[k])
    /\ rules' = [k \in 1..Len(rule_defs) |->
                    Rule(rule_defs[k].name, rule_defs[k].smarts_string,
                         rule_defs[k].overrides)]
    /\ pc' = "while"
    /\ UNCHANGED <<mode, mol, atoms, rule_defs, ai, ri, found_something,
                   passes, whitelist, blacklist, last, ff>>

\* smarts_grammar.parse raises in the first Rule(...) whose string is outside
\* the grammar: no rule list comes to exist, find_atomtypes is not reached
NewRulesRaise ==
    /\ mode = "typing"
    /\ pc = "new"
    /\ \E k \in 1..Len(rule_defs) :
        /\ ~Builds(rule_defs[k])
        /\ \A j \in 1..(k - 1) : Builds(rule_defs[j])
        /\ last' = [atom |-> 0, rule |-> rule_defs[k].name,
                    result |-> "ParseError"]
    /\ pc' = "rejected"
    /\ UNCHANGED <<mode, mol, atoms, rule_defs, rules, ai, ri, found_something,
                   passes, whitelist, blacklist, ff>>

\* a slip: only the whitelist is consulted
UndecidedWhitelistOnly(atom, rule) == RuleObj(rule.name) \notin whitelist[atom]

\* a slip: the overrides of the matching rule are not recorded
AddOverridesDropped(bl, rule) == bl

\* atom.blacklist |= rule.overrides
AddOverrides(bl, rule) == bl \cup rule.overrides

\* the test of the inner if: the rule is to be matched against the atom
Undecided(atom, rule) ==
    /\ RuleObj(rule.name) \notin whitelist[atom]
    /\ RuleObj(rule.name) \notin blacklist[atom]

\* the two for loops move on to the next pair, or the pass is over
Advance ==
    IF ri < Len(rules) THEN /\ ri' = ri + 1
                            /\ ai' = ai
                            /\ pc' = "scan"
    ELSE IF ai < Len(atoms) THEN /\ ri' = 1
                                 /\ ai' = ai + 1
                                 /\ pc' = "scan"
    ELSE /\ ri' = 1
         /\ ai' = 1
         /\ pc' = "while"

\* while(found_something): another pass begins
WhileEnter ==
    /\ mode = "typing"
    /\ pc = "while"
    /\ found_something
    /\ found_something' = FALSE
    /\ passes' = passes + 1
    /\ pc' = IF Len(atoms) = 0 \/ Len(rules) = 0 THEN "while" ELSE "scan"
    /\ ai' = 1
    /\ ri' = 1
    /\ UNCHANGED <<mode, mol, atoms, rule_defs, rules, whitelist, blacklist,
                   last, ff>>

\* while(found_something): the last pass found nothing, the function returns
WhileExit ==
    /\ mode = "typing"
    /\ pc = "while"
    /\ ~found_something
    /\ pc' = "done"
    /\ UNCHANGED <<mode, mol, atoms, rule_defs, rules, ai, ri, found_something,
                   passes, whitelist, blacklist, last, ff>>

\* a pair whose rule is already in one of the atom's lists is passed over
VisitDecided ==
    /\ mode = "typing"
    /\ pc = "scan"
    /\ ~Undecided(atoms[ai], rules[ri])
    /\ last' = [atom |-> atoms[ai], rule |-> rules[ri].name,
                result |-> "skipped"]
    /\ Advance
    /\ UNCHANGED <<mode, mol, atoms, rule_defs, rules, found_something, passes,
                   whitelist, blacklist, ff>>

\* rule.matches(atom) returns True
VisitMatch ==
    /\ mode = "typing"
    /\ pc = "scan"
    /\ Undecided(atoms[ai], rules[ri])
    /\ matches(mol, whitelist, rules[ri], atoms[ai]) = "T"
    /\ whitelist' = [whitelist EXCEPT
                        ![atoms[ai]] = @ \cup {RuleObj(rules[ri].name)}]
    /\ blacklist' = [blacklist EXCEPT
                        ![atoms[ai]] = AddOverrides(@, rules[ri])]
    /\ found_something' = TRUE
    /\ last' = [atom |-> atoms[ai], rule |-> rules[ri].name, result |-> "T"]
    /\ Advance
    /\ UNCHANGED <<mode, mol, atoms, rule_defs, rules, passes, ff>>

\* rule.matches(atom) returns False
VisitNoMatch ==
    /\ mode = "typing"
    /\ pc = "scan"
    /\ Undecided(atoms[ai], rules[ri])
    /\ matches(mol, whitelist, rules[ri], atoms[ai]) = "F"
    /\ last' = [atom |-> atoms[ai], rule |-> rules[ri].name, result |-> "F"]
    /\ Advance
    /\ UNCHANGED <<mode, mol, atoms, rule_defs, rules, found_something, passes,
                   whitelist, blacklist, ff>>

\* rule.matches(atom) raises: the exception leaves find_atomtypes
VisitRaise ==
    /\ mode = "typing"
    /\ pc = "scan"
    /\ Undecided(atoms[ai], rules[ri])
    /\ IsError(matches(mol, whitelist, rules[ri], atoms[ai]))
    /\ last' = [atom |-> atoms[ai], rule |-> rules[ri].name,
                result |-> matches(mol, whitelist, rules[ri], atoms[ai])]
    /\ pc' = "raised"
    /\ UNCHANGED <<mode, mol, atoms, rule_defs, rules, ai, ri, found_something,
                   passes, whitelist, blacklist, ff>>

(***************************************************************************)
(* create_forces.  An atom is identified with its idx; ff holds the        *)
(* structure (bonds, parameterset, the term lists), the keyword arguments, *)
(* the bond graph and the position of the loop over its nodes.             *)
(***************************************************************************)
\* the orders in which a dict or a set may hand out its elements: every
\* listing of them (insertion order of the bonds, hash order of the atoms)
IterationOrders(S) == SeqsOf(S)

\* atom.idx
idx(node) == node

\* the bond lists of at most MaxBonds bonds between MaxNodes atoms
BondSets ==
    {B \in SUBSET {{u, v} : u, v \in 1..MaxNodes} :
        /\ \A b \in B : Cardinality(b) = 2
        /\ Cardinality(B) <= MaxBonds}

\* nx.Graph().add_edges_from(...): the nodes are the atoms with a bond
GraphNodes(bonds) == UNION bonds

\* the atoms bonded to node
Bonded(bonds, node) == {v \in GraphNodes(bonds) : {node, v} \in bonds}

\* the adjacency dicts the graph may hold: for every node its neighbors, in
\* one of the orders the dict of the node may keep them in
RECURSIVE AdjsOn(_, _)
AdjsOn(bonds, nodes) ==
    IF nodes = {} THEN {<<>>}
    ELSE LET n == CHOOSE x \in nodes : TRUE
         IN  {[m \in nodes |-> IF m = n THEN order ELSE adj[m]] :
                order \in IterationOrders(Bonded(bonds, n)),
                adj \in AdjsOn(bonds, nodes \ {n})}

GraphAdjs(bonds) == AdjsOn(bonds, GraphNodes(bonds))

\* bondgraph.neighbors(node): a new list of the node's neighbors
neighbors(adj, node) == adj[node]

\* itertools.combinations(s, 2) and (s, 3), in the order of the positions
combinations2(s) ==
    Concat([i \in 1..Len(s) |-> [j \in 1..(Len(s) - i) |-> <<s[i], s[i + j]>>]])

combinations3(s) ==
    Concat([i \in 1..Len(s) |->
        LET rest == combinations2(SubSeq(s, i + 1, Len(s)))
        IN  [q \in 1..Len(rest) |-> <<s[i]>> \o rest[q]]])

\* itertools.product(s, t)
product(s, t) ==
    Concat([i \in 1..Len(s) |-> [j \in 1..Len(t) |-> <<s[i], t[j]>>]])

\* list.remove(x): the list without the first occurrence of x
RECURSIVE ListRemove(_, _)
ListRemove(s, x) ==
    IF s = <<>> THEN <<>>
    ELSE IF Head(s) = x THEN Tail(s)
    ELSE <<Head(s)>> \o ListRemove(Tail(s), x)

\* a slip: an angle for every ordered pair of neighbors
create_angles_ordered(node, neighbors_1) ==
    LET pairs == permutations(neighbors_1, 2)
    IN  [q \in 1..Len(pairs) |-> <<pairs[q][1], node, pairs[q][2]>>]

\* create_angles: the angles appended around a node
create_angles(node, neighbors_1) ==
    LET pairs == combinations2(neighbors_1)
    IN  [q \in 1..Len(pairs) |-> <<pairs[q][1], node, pairs[q][2]>>]

\* create_impropers: the impropers appended around a node
create_impropers(node, neighbors_1) ==
    LET triplets == combinations3(neighbors_1)
    IN  [q \in 1..Len(triplets) |->
            <<node, triplets[q][1], triplets[q][2], triplets[q][3]>>]

\* the orders in which the set of line 90, set(neighbors_1) - {node_2}, may
\* be iterated
Line90Orders(neighbors_1, node_2) ==
    IterationOrders(Range(neighbors_1) \ {node_2})

\* create_dihedrals: the dihedrals it builds around the pair of nodes, in
\* the order it builds them; set_order is the order in which the set of
\* line 90 is iterated
create_dihedrals(node_1, neighbors_1, node_2, neighbors_2, set_order) ==
    LET n1 == set_order
        n2 == ListRemove(neighbors_2, node_1)
        Differ(pair) == pair[1] # pair[2]
        pairs == SelectSeq(product(n1, n2), Differ)
    IN  [q \in 1..Len(pairs) |-> <<pairs[q][1], node_1, node_2, pairs[q][2]>>]

\* a slip: the comparison of the two idx is left out
DihedralPartnersBothWays(adj, node_1) ==
    LET Eligible(node_2) == Len(neighbors(adj, node_2)) > 1
    IN  SelectSeq(neighbors(adj, node_1), Eligible)

\* the neighbors of node_1 for which create_forces calls create_dihedrals
DihedralPartners(adj, node_1) ==
    LET Eligible(node_2) ==
            /\ idx(node_2) > idx(node_1)
            /\ Len(neighbors(adj, node_2)) > 1
    IN  SelectSeq(neighbors(adj, node_1), Eligible)

\* the sequences that take their k-th element from the k-th of the sets
RECURSIVE Choices(_)
Choices(sets) ==
    IF sets = <<>> THEN {<<>>}
    ELSE {<<x>> \o t : x \in Head(sets), t \in Choices(Tail(sets))}

\* for the calls of create_dihedrals made for node_1, one after the other,
\* the orders in which their sets of line 90 may be iterated
PartnerOrders(adj, node_1) ==
    LET partners == DihedralPartners(adj, node_1)
    IN  Choices([q \in 1..Len(partners) |->
            Line90Orders(neighbors(adj, node_1), partners[q])])

\* the dihedrals built in the body of the loop for node_1; orders[q] is the
\* order of the set of line 90 in the q-th call of create_dihedrals
NodeDihedrals(adj, node_1, orders) ==
    LET partners == DihedralPartners(adj, node_1)
    IN  Concat([q \in 1..Len(partners) |->
            create_dihedrals(node_1, neighbors(adj, node_1), partners[q],
                             neighbors(adj, partners[q]), orders[q])])

Options == [angles : BOOLEAN, dihedrals : BOOLEAN, impropers : BOOLEAN,
            pairs : BOOLEAN]

ParameterSets == [dihedral_types : BOOLEAN, rb_torsion_types : BOOLEAN]

\* a call of create_forces: the structure's bonds and parameterset, the
\* keyword arguments drawn from options and the parameterset from sets, and
\* the bond graph of lines 58-59
CallForces(options, sets) ==
    /\ mode = "forces"
    /\ mol = Molecule(<<>>, <<>>)
    /\ atoms = <<>>
    /\ rule_defs = <<>>
    /\ rules = <<>>
    /\ pc = "idle"
    /\ ai = 1
    /\ ri = 1
    /\ found_something = FALSE
    /\ passes = 0
    /\ whitelist = <<>>
    /\ blacklist = <<>>
    /\ last = NoPair
    /\ \E bonds \in BondSets, opt \in options, ps \in sets :
        \E adj \in GraphAdjs(bonds) :
            ff = [pc |-> "start",
                  bonds |-> bonds,
                  options |-> opt,
                  parameterset |-> ps,
                  adj |-> adj,
                  visited |-> {},
                  angles |-> <<>>,
                  dihedrals |-> <<>>,
                  rb_torsions |-> <<>>,
                  adjusts |-> <<>>,
                  impropers |-> <<>>]

\* the calls with every choice of the four keyword arguments, on a
\* structure whose parameterset holds both kinds of dihedral types
InitForces ==
    CallForces(Options, {[dihedral_types |-> TRUE, rb_torsion_types |-> TRUE]})

\* the calls that ask for no angles and no impropers, on a structure with
\* every choice of parameterset
InitDihedrals ==
    CallForces({opt \in Options : ~opt.angles /\ ~opt.impropers},
               ParameterSets)

\* if any([angles, dihedrals, impropers]): the loop over the nodes begins
ForcesEnter ==
    /\ mode = "forces"
    /\ ff.pc = "start"
    /\ ff.options.angles \/ ff.options.dihedrals \/ ff.options.impropers
    /\ ff' = [ff EXCEPT !.pc = "loop"]
    /\ UNCHANGED <<mode, typing_vars>>

\* none of the three is asked for: create_forces returns at once
ForcesSkip ==
    /\ mode = "forces"
    /\ ff.pc = "start"
    /\ ~(ff.options.angles \/ ff.options.dihedrals \/ ff.options.impropers)
    /\ ff' = [ff EXCEPT !.pc = "done"]
    /\ UNCHANGED <<mode, typing_vars>>

\* one iteration of the loop over the nodes of the bond graph: nodes_iter
\* hands out a node it has not handed out yet
ForcesNode ==
    /\ mode = "forces"
    /\ ff.pc = "loop"
    /\ \E node_1 \in GraphNodes(ff.bonds) \ ff.visited :
       LET neighbors_1 == neighbors(ff.adj, node_1)
           wide == Len(neighbors_1) > 1
           with_dihedrals == wide /\ ff.options.dihedrals
       IN  \E orders \in IF with_dihedrals THEN PartnerOrders(ff.adj, node_1)
                         ELSE {<<>>} :
       LET new_angles ==
               IF wide /\ ff.options.angles
               THEN create_angles(node_1, neighbors_1) ELSE <<>>
           new_dihedrals ==
               IF with_dihedrals
               THEN NodeDihedrals(ff.adj, node_1, orders) ELSE <<>>
           new_impropers ==
               IF wide /\ ff.options.impropers /\ Len(neighbors_1) >= 3
               THEN create_impropers(node_1, neighbors_1) ELSE <<>>
       IN  ff' = [ff EXCEPT
                !.visited = @ \cup {node_1},
                !.angles = @ \o new_angles,
                !.dihedrals = @ \o (IF ff.parameterset.dihedral_types
                                    THEN new_dihedrals ELSE <<>>),
                !.rb_torsions = @ \o (IF ff.parameterset.rb_torsion_types
                                      THEN new_dihedrals ELSE <<>>),
                !.adjusts = @ \o (IF ff.options.pairs
                                  THEN [q \in 1..Len(new_dihedrals) |->
                                          <<new_dihedrals[q][1],
                                            new_dihedrals[q][4]>>]
                                  ELSE <<>>),
                !.impropers = @ \o new_impropers]
    /\ UNCHANGED <<mode, typing_vars>>

\* the loop over the nodes is exhausted: create_forces returns
ForcesReturn ==
    /\ mode = "forces"
    /\ ff.pc = "loop"
    /\ ff.visited = GraphNodes(ff.bonds)
    /\ ff' = [ff EXCEPT !.pc = "done"]
    /\ UNCHANGED <<mode, typing_vars>>

(***************************************************************************)
(* Specifications: Spec builds the rules and runs find_atomtypes;          *)
(* ForcesSpec and DihedralsSpec run create_forces.                         *)
(***************************************************************************)
Init == InitTyping

Next ==
    \/ NewRules
    \/ NewRulesRaise
    \/ WhileEnter
    \/ WhileExit
    \/ VisitDecided
    \/ VisitMatch
    \/ VisitNoMatch
    \/ VisitRaise

Spec == Init /\ [][Next]_vars

ForcesNext ==
    \/ ForcesEnter
    \/ ForcesSkip
    \/ ForcesNode
    \/ ForcesReturn

ForcesSpec == InitForces /\ [][ForcesNext]_vars

DihedralsSpec == InitDihedrals /\ [][ForcesNext]_vars

(***************************************************************************)
(* Reference definitions the properties are stated with.                   *)
(***************************************************************************)
Primitives == {"any_atom", "atomic_num", "atom_symbol", "has_label",
               "neighbor_count", "ring_size", "matches_string"}

UnsupportedPrimitives == {"ring_size", "matches_string"}

\* the tree holds a ring_size or matches_string primitive
RECURSIVE HasUnsupported(_)
HasUnsupported(node) ==
    IF node.head \in Primitives THEN node.head \in UnsupportedPrimitives
    ELSE IF node.head = "atom_label" THEN FALSE
    ELSE \E k \in 1..Len(node.tail) : HasUnsupported(node.tail[k])

\* the expression of the first atom of a rule's pattern
StartExpr(rule) == NodeAt(rule.ast, start_atom_expr).tail[1]

\* the injective assignments of n continuations to d neighbor positions
Assignments(n, d) ==
    {f \in [1..n -> 1..d] : \A i, j \in 1..n : f[i] = f[j] => i = j}

\* the reference permutation search: the atom satisfies the constraint and
\* the continuations can be assigned injectively to its physical neighbors
RECURSIVE RefMatches(_, _, _, _, _)
RefMatches(m, wl, ast, atom, pos) ==
    /\ atom_expr_matches(m, wl, NodeAt(ast, pos).tail[1], atom) = "T"
    /\ LET exprs == neighbor_atom_exprs(ast, pos)
           nb == m.bond_partners[atom]
       IN  \/ exprs = <<>>
           \/ \E f \in Assignments(Len(exprs), Len(nb)) :
                \A k \in 1..Len(exprs) :
                    RefMatches(m, wl, ast, nb[f[k]], exprs[k])

\* the same search when the atom the match arrived from is not offered to
\* the continuations (from = 0 at the start atom)
RECURSIVE StrictMatches(_, _, _, _, _, _)
StrictMatches(m, wl, ast, atom, pos, from) ==
    /\ atom_expr_matches(m, wl, NodeAt(ast, pos).tail[1], atom) = "T"
    /\ LET exprs == neighbor_atom_exprs(ast, pos)
           nb == SelectSeq(m.bond_partners[atom], LAMBDA q : q # from)
       IN  \/ exprs = <<>>
           \/ \E f \in Assignments(Len(exprs), Len(nb)) :
                \A k \in 1..Len(exprs) :
                    StrictMatches(m, wl, ast, nb[f[k]], exprs[k], atom)

Typing == mode = "typing"

RuleNamed(name) == CHOOSE r \in Range(rules) : r.name = name

(***************************************************************************)
(* C1.  Override monotonicity: once find_atomtypes has converged, every    *)
(* atom that has a rule r1 in its whitelist has every member of            *)
(* r1.overrides in its blacklist.                                          *)
(***************************************************************************)
C1_OverrideMonotonicity ==
    (Typing /\ pc = "done") =>
        \A a \in AtomsOf(mol) : \A r1 \in Range(rules) :
            RuleObj(r1.name) \in whitelist[a] =>
                \A r2 \in r1.overrides : r2 \in blacklist[a]

C1_Witness ==
    /\ Typing
    /\ pc = "done"
    /\ passes >= 2
    /\ \E a \in AtomsOf(mol) : \E r1 \in Range(rules) :
        /\ RuleObj(r1.name) \in whitelist[a]
        /\ r1.overrides # {}
        /\ r1.overrides \subseteq blacklist[a]

(***************************************************************************)
(* C2.  Label-chained overrides: with exactly the rules r1 (single-atom    *)
(* pattern P, no overrides) and r2 (pattern P and HasLabel(r1), overrides  *)
(* {r1}), in whichever order atoms and rules are visited, at convergence   *)
(* every atom that satisfies P has r2 in its whitelist and r1 in its       *)
(* blacklist.                                                              *)
(***************************************************************************)
\* r1 and r2 are the two rules of the scenario
Chained(r1, r2) ==
    /\ Len(r1.ast.tail) = 1
    /\ r1.overrides = {}
    /\ r2.ast = StartNode(<<AtomNode(AndExpr(StartExpr(r1),
                                             HasLabelId(r1.name)))>>)
    /\ r2.overrides \in {{RuleObj(r1.name)}, {StrObj(r1.name)}}

C2_LabelChain ==
    (Typing /\ pc = "done" /\ Len(rules) = 2) =>
        \A r1, r2 \in Range(rules) :
            Chained(r1, r2) =>
                \A a \in AtomsOf(mol) :
                    atom_expr_matches(mol, whitelist, StartExpr(r1), a) = "T"
                    => /\ RuleObj(r2.name) \in whitelist[a]
                       /\ r2.overrides \subseteq blacklist[a]

C2_Witness ==
    /\ Typing
    /\ pc = "done"
    /\ Len(rules) = 2
    /\ Chained(rules[2], rules[1])
    /\ \E a \in AtomsOf(mol) :
        /\ atom_expr_matches(mol, whitelist, StartExpr(rules[2]), a) = "T"
        /\ RuleObj(rules[1].name) \in whitelist[a]
        /\ RuleObj(rules[2].name) \in blacklist[a]

(***************************************************************************)
(* C3.  Termination: with rules made of supported primitives a run of      *)
(* find_atomtypes ends by a full pass that adds nothing, never by an       *)
(* exception, and begins at most atoms x rules + 1 passes.                 *)
(***************************************************************************)
SupportedRules == \A r \in Range(rules) : ~HasUnsupported(r.ast)

C3_Terminates ==
    (Typing /\ SupportedRules) =>
        /\ pc # "raised"
        /\ passes <= Len(atoms) * Len(rules) + 1
        /\ pc = "done" => ~found_something

(***************************************************************************)
(* C4.  Rule.matches is the reference permutation search: for a pattern of *)
(* supported primitives it returns True exactly when the reference search  *)
(* succeeds; and the pattern of a carbon of degree 4 with four wildcard    *)
(* neighbors, written with bare wildcards as in rule tetra_bare, makes a   *)
(* rule that matches the carbons of ethane and no carbon of degree 3 (as   *)
(* the bracketed spelling of rule tetra does).                             *)
(***************************************************************************)
\* a rule with the tetrahedral-carbon pattern matches exactly the carbons
\* with four bond partners
MatchesTetrahedral(r) ==
    \A a \in AtomsOf(mol) :
        mol.atomic_number[a] = 6 =>
            (matches(mol, whitelist, r, a) =
                IF Len(mol.bond_partners[a]) = 4 THEN "T" ELSE "F")

C4_MatchesIsReference ==
    Typing =>
        /\ \A r \in Range(rules) : \A a \in AtomsOf(mol) :
            ~HasUnsupported(r.ast) =>
                (matches(mol, whitelist, r, a) = "T")
                    <=> RefMatches(mol, whitelist, r.ast, a, start_atom_expr)
        /\ \A r \in Range(rules) : r.name = "tetra" => MatchesTetrahedral(r)
        /\ \A k \in 1..Len(rule_defs) :
            rule_defs[k].name = "tetra_bare" =>
                /\ pc # "rejected"
                /\ pc # "new" => MatchesTetrahedral(rules[k])

(***************************************************************************)
(* C5.  Unsupported features are never a silent non-match: a rule whose    *)
(* pattern references a RingSize or SubPattern primitive ends in the error *)
(* for every atom it is matched against, never in True or False, and       *)
(* whenever a match ends in an error find_atomtypes stops with it.         *)
(***************************************************************************)
C5_AnyReferenceRaises ==
    Typing =>
        /\ \A r \in Range(rules) : \A a \in AtomsOf(mol) :
            HasUnsupported(r.ast) =>
                matches(mol, whitelist, r, a) = "NotImplementedError"
        /\ IsError(last.result) => pc = "raised"

(***************************************************************************)
(* C8.  Too few physical neighbors is a non-match: when the atom satisfies *)
(* the constraint of the first pattern atom and has fewer bond partners    *)
(* than that atom has continuations, Rule.matches returns False, and no    *)
(* run of find_atomtypes is ended by the neighbor-count check.             *)
(***************************************************************************)
C8_TooFewNeighborsIsNoMatch ==
    Typing =>
        /\ (/\ last.result \in {"T", "F"} \cup Exceptions
            /\ atom_expr_matches(mol, whitelist,
                                 StartExpr(RuleNamed(last.rule)),
                                 last.atom) = "T"
            /\ Len(mol.bond_partners[last.atom]) <
                 Len(neighbor_atom_exprs(RuleNamed(last.rule).ast,
                                         start_atom_expr)))
           => /\ last.result = "F"
              /\ pc # "raised"
        /\ last.result # "AssertionError"

(***************************************************************************)
(* C9.  No revisit: Rule.matches returns True only if the pattern can be   *)
(* laid out without offering the atom the match arrived from to the        *)
(* continuations of the next pattern atom.                                 *)
(***************************************************************************)
C9_NoRevisit ==
    Typing =>
        \A r \in Range(rules) : \A a \in AtomsOf(mol) :
            matches(mol, whitelist, r, a) = "T" =>
                StrictMatches(mol, whitelist, r.ast, a, start_atom_expr, 0)

(***************************************************************************)
(* C10.  A suppressed rule is not evaluated again: every step runs the     *)
(* matcher only on a pair whose rule is in neither list of the atom, and a *)
(* rule that is in an atom's blacklist without being in its whitelist      *)
(* never enters that whitelist.                                            *)
(***************************************************************************)
C10_SuppressedStaysOut ==
    [][Typing =>
        /\ \A a \in AtomsOf(mol) : \A r \in Range(rules) :
            (/\ RuleObj(r.name) \in blacklist[a]
             /\ RuleObj(r.name) \notin whitelist[a])
            => RuleObj(r.name) \notin whitelist'[a]
        /\ (pc = "scan" /\ last'.result # "skipped") =>
            /\ RuleObj(rules[ri].name) \notin whitelist[atoms[ai]]
            /\ RuleObj(rules[ri].name) \notin blacklist[atoms[ai]]]_vars

C10_Witness ==
    /\ Typing
    /\ last.result = "skipped"
    /\ RuleObj(last.rule) \in blacklist[last.atom]
    /\ RuleObj(last.rule) \notin whitelist[last.atom]
    /\ matches(mol, whitelist, RuleNamed(last.rule), last.atom) = "T"

(***************************************************************************)
(* C6.  Dihedral non-duplication: every dihedral is built from the         *)
(* lower-index atom of its central bond, no list holds a 4-tuple twice or  *)
(* a 4-tuple and its reverse, and a linear chain A-B-C-D yields exactly    *)
(* one dihedral, the one over A, B, C, D.                                  *)
(***************************************************************************)
Reversed4(t) == <<t[4], t[3], t[2], t[1]>>

NoDuplicateDihedral(ds) ==
    /\ \A i, j \in 1..Len(ds) : i # j => ds[i] # ds[j] /\ ds[i] # Reversed4(ds[j])
    /\ \A i \in 1..Len(ds) :
        /\ idx(ds[i][2]) < idx(ds[i][3])
        /\ {ds[i][2], ds[i][3]} \in ff.bonds
        /\ {ds[i][1], ds[i][2]} \in ff.bonds
        /\ {ds[i][3], ds[i][4]} \in ff.bonds

\* the one dihedral of the chain A-B-C-D, written from its lower-index
\* central atom
ChainDihedral(A, B, C, D) ==
    IF idx(B) < idx(C) THEN <<A, B, C, D>> ELSE <<D, C, B, A>>

C6_DihedralsOnce ==
    mode = "forces" =>
        /\ NoDuplicateDihedral(ff.dihedrals)
        /\ NoDuplicateDihedral(ff.rb_torsions)
        /\ (ff.pc = "done" /\ ff.options.dihedrals /\ Cardinality(ff.bonds) = 3)
           => \A A, B, C, D \in 1..MaxNodes :
            (/\ ff.bonds = {{A, B}, {B, C}, {C, D}}
             /\ Cardinality({A, B, C, D}) = 4)
            => /\ ff.parameterset.dihedral_types =>
                    ff.dihedrals = <<ChainDihedral(A, B, C, D)>>
               /\ ff.parameterset.rb_torsion_types =>
                    ff.rb_torsions = <<ChainDihedral(A, B, C, D)>>
               /\ ff.options.pairs => Len(ff.adjusts) = 1

C6_Witness ==
    /\ mode = "forces"
    /\ ff.pc = "done"
    /\ ff.bonds = {{3, 1}, {1, 2}, {2, 4}}
    /\ ff.dihedrals = <<<<3, 1, 2, 4>>>>
    /\ ff.rb_torsions = ff.dihedrals

(***************************************************************************)
(* C7.  Angle count: with angles enabled every node of degree d the loop   *)
(* has passed is the center of exactly d*(d-1)/2 angles, one per pair of   *)
(* its neighbors, whatever the other three options are; no angle is        *)
(* appended otherwise.                                                     *)
(***************************************************************************)
Degree(node) == Cardinality({b \in ff.bonds : node \in b})

Passed(node) == node \in ff.visited

AnglesAt(node) == {q \in 1..Len(ff.angles) : ff.angles[q][2] = node}

C7_AngleCount ==
    mode = "forces" =>
        \A node \in 1..MaxNodes :
            IF ff.options.angles /\ Passed(node)
            THEN /\ Cardinality(AnglesAt(node)) =
                        (Degree(node) * (Degree(node) - 1)) \div 2
                 /\ \A u, v \in 1..MaxNodes :
                        (u # v /\ {u, node} \in ff.bonds /\ {v, node} \in ff.bonds)
                        => \E q \in AnglesAt(node) :
                              {ff.angles[q][1], ff.angles[q][3]} = {u, v}
            ELSE AnglesAt(node) = {}

C7_Witness ==
    /\ mode = "forces"
    /\ ff.pc = "done"
    /\ ff.options.angles /\ ff.options.dihedrals /\ ff.options.pairs
    /\ ff.options.impropers
    /\ \E node \in 1..MaxNodes :
        /\ Degree(node) >= 2
        /\ Cardinality(AnglesAt(node)) =
                (Degree(node) * (Degree(node) - 1)) \div 2
        /\ \E q \in 1..Len(ff.dihedrals) : ff.dihedrals[q][3] = node

====
